---- MODULE Spec2Model ----
(***************************************************************************)
(* MB::ModbusCell (include/MB/modbusCell.hpp): a cell holding one of a     *)
(* coil (bool), a register (uint16_t) or a value (uint8_t) in a            *)
(* std::variant<uint16_t, uint8_t, bool>.                                  *)
(*                                                                         *)
(* The variant is the record [index, n, b]: index names the active         *)
(* alternative, n is the stored number when the alternative is numeric,    *)
(* b the stored boolean when it is bool.  The inactive payload is kept at  *)
(* its zero value so that equality of records is equality of variants.     *)
(*                                                                         *)
(* Every member function is an operator from the cell to the record        *)
(* [cell, threw, retB, retN, retS]: the cell after the call, whether       *)
(* std::bad_variant_access left the function, and the returned value.      *)
(***************************************************************************)
EXTENDS Integers, Sequences, FiniteSets, TLC

\* Arguments tried: 0..MaxSmall and the distinguished values below.
MaxSmall == 1

Uint16Inputs == (0..MaxSmall) \cup {5, 42, 300, 2^16 - 1}
Uint8Inputs  == (0..MaxSmall) \cup {7, 2^8 - 1}

VARIABLES cell,   \* the ModbusCell under test (its _value)
          other,  \* a second ModbusCell, target of copies and source of assignments
          ref,    \* alternative the last returned mutable reference points at
          call,   \* the last call on cell: operation, arguments, cell before, outcome
          prev    \* the call before that one when it was a coercing accessor, else NoCall

vars == <<cell, other, ref, call, prev>>

----------------------------------------------------------------------------
\* std::variant<uint16_t, uint8_t, bool>

\* faulty conversions: a saturating narrowing, only 1 is true, true is all ones
static_cast_uint8_t_saturating(n) == IF n > 2^8 - 1 THEN 2^8 - 1 ELSE n
static_cast_bool_only_one(n) == n = 1
bool_to_int_all_ones(b) == IF b THEN 2^16 - 1 ELSE 0

\* conversions between the alternatives' types: static_cast<uint16_t>,
\* static_cast<uint8_t> and static_cast<bool> of a number, and a bool as a number
static_cast_uint16_t(n) == n % 2^16
static_cast_uint8_t(n) == n % 2^8
static_cast_bool(n) == n # 0
bool_to_int(b) == IF b THEN 1 ELSE 0

\* _value(reg), _value = <uint16_t>
variant_uint16_t(r) == [index |-> "uint16_t", n |-> static_cast_uint16_t(r), b |-> FALSE]
\* _value(val), _value = <uint8_t>
variant_uint8_t(v) == [index |-> "uint8_t", n |-> static_cast_uint8_t(v), b |-> FALSE]
\* _value(coil), _value = <bool>
variant_bool(x) == [index |-> "bool", n |-> 0, b |-> x]

holds_alternative(T, v) == v.index = T

\* faulty variant: an unchecked read of the storage
get_unchecked(T, v) == [threw |-> FALSE, n |-> v.n, b |-> v.b]

\* std::get<T>(v): the stored value, or std::bad_variant_access
get(T, v) ==
  IF v.index = T
    THEN [threw |-> FALSE, n |-> v.n, b |-> v.b]
    ELSE [threw |-> TRUE, n |-> 0, b |-> FALSE]

----------------------------------------------------------------------------
\* What a member function leaves behind: the cell, whether it threw, its result.
Result(c, t, rb, rn, rs) == [cell |-> c, threw |-> t, retB |-> rb, retN |-> rn, retS |-> rs]

\* constructors and the static wrappers
ModbusCell_default == [index |-> "uint16_t", n |-> 0, b |-> FALSE]
ModbusCell_uint16_t(r) == variant_uint16_t(r)
ModbusCell_bool(x) == variant_bool(x)
\* faulty variant: the 8-bit argument widens and selects the register alternative
ModbusCell_uint8_t_widened(v) == variant_uint16_t(v)
ModbusCell_uint8_t(v) == variant_uint8_t(v)
initReg(r) == ModbusCell_uint16_t(r)
initCoil(x) == ModbusCell_bool(x)
initVal(v) == ModbusCell_uint8_t(v)

\* ModbusCell(const ModbusCell &) and both operator= are defaulted: memberwise
ModbusCell_copy(o) == o
operator_assign(c, o) == o

isCoil(c) == holds_alternative("bool", c)
isReg(c) == holds_alternative("uint16_t", c)
\* faulty variant: everything that is not a coil counts as a value
isVal_not_coil(c) == ~holds_alternative("bool", c)
isVal(c) == holds_alternative("uint8_t", c)

\* faulty variant: the strict coil read leaves a coil behind
coil_const_resetting(c) ==
  LET g == get("bool", c) IN Result(variant_bool(g.b), g.threw, g.b, 0, "")

\* strict accessors: coil() const, reg() const, val() const
coil_const(c) ==
  LET g == get("bool", c) IN Result(c, g.threw, g.b, 0, "")

reg_const(c) ==
  LET g == get("uint16_t", c) IN Result(c, g.threw, FALSE, g.n, "")

val_const(c) ==
  LET g == get("uint8_t", c) IN Result(c, g.threw, FALSE, g.n, "")

\* faulty variant: coil() converts the number whatever the active alternative
coil_always_converts(c) ==
  Result(variant_bool(static_cast_bool(c.n)), FALSE, static_cast_bool(c.n), 0, "")

\* coercing accessors: the conversion reads the active alternative with
\* std::get, assigns the converted value, then std::get reads the result
coil(c) ==
  LET g == IF isReg(c) THEN get("uint16_t", c)
           ELSE IF isVal(c) THEN get("uint8_t", c)
           ELSE get("bool", c)
      c1 == IF isReg(c) \/ isVal(c) THEN variant_bool(static_cast_bool(g.n)) ELSE c
      r == get("bool", c1)
  IN  IF g.threw THEN Result(c, TRUE, FALSE, 0, "")
      ELSE Result(c1, r.threw, r.b, 0, "")

reg(c) ==
  LET g == IF isCoil(c) THEN get("bool", c)
           ELSE IF isVal(c) THEN get("uint8_t", c)
           ELSE get("uint16_t", c)
      c1 == IF isCoil(c) THEN variant_uint16_t(bool_to_int(g.b))
            ELSE IF isVal(c) THEN variant_uint16_t(g.n)
            ELSE c
      r == get("uint16_t", c1)
  IN  IF g.threw THEN Result(c, TRUE, FALSE, 0, "")
      ELSE Result(c1, r.threw, FALSE, r.n, "")

\* faulty variant: val() reads a register as if it were already a value
val_wrong_get(c) ==
  LET g == get("uint8_t", c)
      c1 == variant_uint8_t(g.n)
  IN  IF g.threw THEN Result(c, TRUE, FALSE, 0, "") ELSE Result(c1, FALSE, FALSE, g.n, "")

val(c) ==
  LET g == IF isCoil(c) THEN get("bool", c)
           ELSE IF isReg(c) THEN get("uint16_t", c)
           ELSE get("uint8_t", c)
      c1 == IF isCoil(c) THEN variant_uint8_t(bool_to_int(g.b))
            ELSE IF isReg(c) THEN variant_uint8_t(g.n)
            ELSE c
      r == get("uint8_t", c1)
  IN  IF g.threw THEN Result(c, TRUE, FALSE, 0, "")
      ELSE Result(c1, r.threw, FALSE, r.n, "")

\* a store through the reference a coercing accessor returned
store_bool(c, x) == [c EXCEPT !.b = x]
store_uint16_t(c, r) == [c EXCEPT !.n = static_cast_uint16_t(r)]
store_uint8_t(c, v) == [c EXCEPT !.n = static_cast_uint8_t(v)]

\* std::to_string of a non-negative int: its decimal digits
Digit(d) ==
  CASE d = 0 -> "0" [] d = 1 -> "1" [] d = 2 -> "2" [] d = 3 -> "3" [] d = 4 -> "4"
    [] d = 5 -> "5" [] d = 6 -> "6" [] d = 7 -> "7" [] d = 8 -> "8" [] d = 9 -> "9"

RECURSIVE to_string(_)
to_string(n) == IF n < 10 THEN Digit(n) ELSE to_string(n \div 10) \o Digit(n % 10)

\* faulty variant: a coil is rendered as a number
toString_numeric_coil(c) ==
  Result(c, FALSE, FALSE, 0, to_string(IF isCoil(c) THEN bool_to_int(c.b) ELSE c.n))

toString(c) ==
  IF isCoil(c)
    THEN LET r == coil_const(c)
         IN  Result(r.cell, r.threw, FALSE, 0, IF r.retB THEN "true" ELSE "false")
    ELSE IF isReg(c)
      THEN LET r == reg_const(c)
           IN  Result(r.cell, r.threw, FALSE, 0, IF r.threw THEN "" ELSE to_string(r.retN))
      ELSE LET r == val_const(c)
           IN  Result(r.cell, r.threw, FALSE, 0, IF r.threw THEN "" ELSE to_string(r.retN))

----------------------------------------------------------------------------
\* The record of a call on cell.
Call(op, ab, an, r) ==
  [op |-> op, argB |-> ab, argN |-> an, pre |-> cell,
   threw |-> r.threw, retB |-> r.retB, retN |-> r.retN, retS |-> r.retS]

NoCall ==
  [op |-> "none", argB |-> FALSE, argN |-> 0, pre |-> ModbusCell_default,
   threw |-> FALSE, retB |-> FALSE, retN |-> 0, retS |-> ""]

CoercingOps == {"coil()", "reg()", "val()"}
StrictOps == {"coil() const", "reg() const", "val() const"}

Remember(c) == IF c.op \in CoercingOps THEN c ELSE NoCall

\* op on cell with outcome r; the reference held is rf afterwards
Do(op, ab, an, r, rf) ==
  /\ cell' = r.cell
  /\ call' = Call(op, ab, an, r)
  /\ prev' = Remember(call)
  /\ ref' = rf
  /\ UNCHANGED other

Init ==
  /\ cell = ModbusCell_default
  /\ other = ModbusCell_default
  /\ ref = "none"
  /\ call = [NoCall EXCEPT !.op = "ModbusCell()"]
  /\ prev = NoCall

\* cell = ModbusCell(...): a fresh cell takes the place of the old one
ConstructDefault ==
  /\ Do("ModbusCell()", FALSE, 0,
        Result(operator_assign(cell, ModbusCell_default), FALSE, FALSE, 0, ""), ref)

ConstructReg ==
  /\ \E r \in Uint16Inputs :
       Do("ModbusCell(uint16_t)", FALSE, r,
       Result(operator_assign(cell, ModbusCell_uint16_t(r)), FALSE, FALSE, 0, ""), ref)

ConstructCoil ==
  /\ \E x \in BOOLEAN :
       Do("ModbusCell(bool)", x, 0,
       Result(operator_assign(cell, ModbusCell_bool(x)), FALSE, FALSE, 0, ""), ref)

ConstructVal ==
  /\ \E v \in Uint8Inputs :
       Do("ModbusCell(uint8_t)", FALSE, v,
       Result(operator_assign(cell, ModbusCell_uint8_t(v)), FALSE, FALSE, 0, ""), ref)

InitReg ==
  /\ \E r \in Uint16Inputs :
       Do("initReg", FALSE, r, Result(operator_assign(cell, initReg(r)), FALSE, FALSE, 0, ""), ref)

InitCoil ==
  /\ \E x \in BOOLEAN :
       Do("initCoil", x, 0, Result(operator_assign(cell, initCoil(x)), FALSE, FALSE, 0, ""), ref)

InitVal ==
  /\ \E v \in Uint8Inputs :
       Do("initVal", FALSE, v, Result(operator_assign(cell, initVal(v)), FALSE, FALSE, 0, ""), ref)

\* ModbusCell other(cell)
Copy ==
  /\ other' = ModbusCell_copy(cell)
  /\ call' = Call("copy", FALSE, 0, Result(cell, FALSE, FALSE, 0, ""))
  /\ prev' = Remember(call)
  /\ UNCHANGED <<cell, ref>>

\* cell = other
Assign ==
  /\ Do("operator=", FALSE, 0, Result(operator_assign(cell, other), FALSE, FALSE, 0, ""), ref)

IsCoil ==
  /\ Do("isCoil", FALSE, 0, Result(cell, FALSE, isCoil(cell), 0, ""), ref)
IsReg ==
  /\ Do("isReg", FALSE, 0, Result(cell, FALSE, isReg(cell), 0, ""), ref)
IsVal ==
  /\ Do("isVal", FALSE, 0, Result(cell, FALSE, isVal(cell), 0, ""), ref)

\* bool &x = cell.coil(), and likewise
CoilMut ==
  /\ Do("coil()", FALSE, 0, coil(cell), IF coil(cell).threw THEN ref ELSE "bool")
RegMut ==
  /\ Do("reg()", FALSE, 0, reg(cell), IF reg(cell).threw THEN ref ELSE "uint16_t")
ValMut ==
  /\ Do("val()", FALSE, 0, val(cell), IF val(cell).threw THEN ref ELSE "uint8_t")

\* x = ... through the reference, while it refers to the active alternative
WriteCoil ==
  /\ ref = "bool" /\ holds_alternative("bool", cell)
  /\ \E x \in BOOLEAN :
       Do("coil() =", x, 0, Result(store_bool(cell, x), FALSE, FALSE, 0, ""), ref)

WriteReg ==
  /\ ref = "uint16_t" /\ holds_alternative("uint16_t", cell)
  /\ \E r \in Uint16Inputs :
       Do("reg() =", FALSE, r, Result(store_uint16_t(cell, r), FALSE, FALSE, 0, ""), ref)

WriteVal ==
  /\ ref = "uint8_t" /\ holds_alternative("uint8_t", cell)
  /\ \E v \in Uint8Inputs :
       Do("val() =", FALSE, v, Result(store_uint8_t(cell, v), FALSE, FALSE, 0, ""), ref)

\* the const overloads, called on a const view of cell
CoilConst ==
  /\ Do("coil() const", FALSE, 0, coil_const(cell), ref)
RegConst ==
  /\ Do("reg() const", FALSE, 0, reg_const(cell), ref)
ValConst ==
  /\ Do("val() const", FALSE, 0, val_const(cell), ref)

ToStringCall ==
  /\ Do("toString()", FALSE, 0, toString(cell), ref)

Next ==
  \/ ConstructDefault \/ ConstructReg \/ ConstructCoil \/ ConstructVal
  \/ InitReg \/ InitCoil \/ InitVal
  \/ Copy \/ Assign
  \/ IsCoil \/ IsReg \/ IsVal
  \/ CoilMut \/ RegMut \/ ValMut
  \/ WriteCoil \/ WriteReg \/ WriteVal
  \/ CoilConst \/ RegConst \/ ValConst
  \/ ToStringCall

Spec == Init /\ [][Next]_vars

----------------------------------------------------------------------------
\* C1: in every reachable state exactly one of isCoil(), isReg(), isVal() is
\* true, of the cell and of its copy.
ExactlyOne(c) ==
  \/ isCoil(c) /\ ~isReg(c) /\ ~isVal(c)
  \/ ~isCoil(c) /\ isReg(c) /\ ~isVal(c)
  \/ ~isCoil(c) /\ ~isReg(c) /\ isVal(c)

C1_ExactlyOneKind == ExactlyOne(cell) /\ ExactlyOne(other)

C1_Witness ==
  /\ call.op = "val()" /\ call.pre.index = "bool"
  /\ isVal(cell) /\ ~isCoil(cell) /\ ~isReg(cell)

\* C2: a constructor or static wrapper fixes kind and value: the cell has the
\* kind of the argument's type and its strict read returns the argument; the
\* default-constructed cell is the register cell holding 0.
C2_ConstructionFixes ==
  /\ call.op \in {"ModbusCell(bool)", "initCoil"} =>
       /\ isCoil(cell) /\ cell.index = "bool"
       /\ ~coil_const(cell).threw /\ coil_const(cell).retB = call.argB
  /\ call.op \in {"ModbusCell(uint16_t)", "initReg"} =>
       /\ isReg(cell) /\ cell.index = "uint16_t"
       /\ ~reg_const(cell).threw /\ reg_const(cell).retN = call.argN
  /\ call.op \in {"ModbusCell(uint8_t)", "initVal"} =>
       /\ isVal(cell) /\ cell.index = "uint8_t"
       /\ ~val_const(cell).threw /\ val_const(cell).retN = call.argN
  /\ call.op = "ModbusCell()" =>
       /\ isReg(cell) /\ cell.index = "uint16_t"
       /\ ~reg_const(cell).threw /\ reg_const(cell).retN = 0
       /\ cell = ModbusCell_uint16_t(0)

C2_Witness ==
  /\ call.op = "initVal" /\ call.argN = 2^8 - 1
  /\ isVal(cell) /\ val_const(cell).retN = 2^8 - 1

\* C3: a strict accessor throws exactly when the active kind differs from the
\* one asked for, and otherwise returns the stored value.
C3_StrictFailsIffMismatch ==
  /\ call.op = "coil() const" =>
       /\ call.threw <=> call.pre.index # "bool"
       /\ ~call.threw => call.retB = call.pre.b
  /\ call.op = "reg() const" =>
       /\ call.threw <=> call.pre.index # "uint16_t"
       /\ ~call.threw => call.retN = call.pre.n
  /\ call.op = "val() const" =>
       /\ call.threw <=> call.pre.index # "uint8_t"
       /\ ~call.threw => call.retN = call.pre.n

C3_Witness ==
  /\ call.op = "reg() const" /\ call.threw
  /\ call.pre.index = "uint8_t" /\ call.pre.n = 7

\* C4: a strict accessor leaves the cell as it was, whether it returns or
\* throws.
C4_StrictNeverChanges == call.op \in StrictOps => cell = call.pre

C4_Witness ==
  /\ call.op = "coil() const" /\ call.threw
  /\ call.pre.index = "uint16_t" /\ call.pre.n = 5
  /\ cell = call.pre

\* C5: after the coercing accessor for kind K the active kind is K; a coil
\* becomes 0 (false) or 1 (true), a number becomes false (0) or true (non-zero);
\* the accessor returns the converted value.
C5_CoercionConverts ==
  /\ call.op = "coil()" =>
       /\ cell.index = "bool"
       /\ call.pre.index \in {"uint16_t", "uint8_t"} => cell.b = (call.pre.n # 0)
       /\ call.retB = cell.b
  /\ call.op = "reg()" =>
       /\ cell.index = "uint16_t"
       /\ call.pre.index = "bool" => cell.n = (IF call.pre.b THEN 1 ELSE 0)
       /\ call.retN = cell.n
  /\ call.op = "val()" =>
       /\ cell.index = "uint8_t"
       /\ call.pre.index = "bool" => cell.n = (IF call.pre.b THEN 1 ELSE 0)
       /\ call.retN = cell.n

C5_Witness ==
  /\ call.op = "coil()"
  /\ call.pre.index = "uint16_t" /\ call.pre.n = 5
  /\ cell.index = "bool" /\ cell.b /\ call.retB

\* C6: val() on a register holding r leaves a value holding r mod 256; reg() on
\* a value holding v leaves a register holding v; neither throws.
C6_NumericCoercion ==
  /\ call.op = "val()" /\ call.pre.index = "uint16_t" =>
       /\ ~call.threw
       /\ cell.index = "uint8_t" /\ cell.n = call.pre.n % 256
       /\ call.retN = call.pre.n % 256
  /\ call.op = "reg()" /\ call.pre.index = "uint8_t" =>
       /\ ~call.threw
       /\ cell.index = "uint16_t" /\ cell.n = call.pre.n
       /\ call.retN = call.pre.n

C6_Witness ==
  /\ call.op = "val()"
  /\ call.pre.index = "uint16_t" /\ call.pre.n = 300
  /\ cell.index = "uint8_t" /\ cell.n = 44

\* C7: the coercing accessor for the kind that is already active changes
\* nothing and returns the stored value; the same coercing accessor called
\* twice in a row leaves the cell as the first call left it.
C7_SameKindNoConversion ==
  /\ call.op = "coil()" /\ call.pre.index = "bool" =>
       cell = call.pre /\ call.retB = call.pre.b
  /\ call.op = "reg()" /\ call.pre.index = "uint16_t" =>
       cell = call.pre /\ call.retN = call.pre.n
  /\ call.op = "val()" /\ call.pre.index = "uint8_t" =>
       cell = call.pre /\ call.retN = call.pre.n
  /\ call.op \in CoercingOps /\ prev.op = call.op => cell = call.pre

C7_Witness ==
  /\ call.op = "val()" /\ prev.op = "val()"
  /\ prev.pre.index = "uint16_t" /\ prev.pre.n = 300
  /\ cell.index = "uint8_t" /\ cell.n = 44

\* C8: toString() returns true or false for a coil and the decimal text of the
\* number for a register or a value, and leaves the cell as it was.
C8_ToStringRenders ==
  call.op = "toString()" =>
    /\ cell = call.pre
    /\ cell.index = "bool" => call.retS = (IF cell.b THEN "true" ELSE "false")
    /\ cell.index \in {"uint16_t", "uint8_t"} => call.retS = ToString(cell.n)
    /\ cell.index = "uint16_t" /\ cell.n = 42 => call.retS = "42"
    /\ cell.index = "uint8_t" /\ cell.n = 7 => call.retS = "7"

C8_Witness ==
  /\ call.op = "toString()"
  /\ cell.index = "uint16_t" /\ cell.n = 42
  /\ call.retS = "42"

\* C9: nothing but a strict accessor called on the cell ever throws:
\* construction, copies, predicates, coercing accessors, stores and toString()
\* all return.
C9_OnlyStrictThrows == call.op \notin StrictOps => ~call.threw

C9_Witness ==
  /\ call.op = "val()" /\ ~call.threw
  /\ call.pre.index = "uint16_t" /\ call.pre.n = 2^16 - 1
  /\ call.retN = 2^8 - 1

\* C10: coil() on a register holding r returns r # 0 and leaves a coil; reg()
\* called next returns 0 when r = 0 and 1 otherwise and leaves a register, which
\* equals the first register exactly when r is 0 or 1.
C10_RoundTripThroughCoil ==
  /\ call.op = "coil()" /\ call.pre.index = "uint16_t" =>
       cell.index = "bool" /\ call.retB = (call.pre.n # 0)
  /\ call.op = "reg()" /\ prev.op = "coil()" /\ prev.pre.index = "uint16_t" =>
       /\ prev.retB = (prev.pre.n # 0)
       /\ call.pre.index = "bool"
       /\ cell.index = "uint16_t"
       /\ call.retN = (IF prev.pre.n = 0 THEN 0 ELSE 1)
       /\ cell.n = call.retN
       /\ cell = prev.pre <=> prev.pre.n \in {0, 1}

C10_Witness ==
  /\ call.op = "reg()" /\ prev.op = "coil()"
  /\ prev.pre.index = "uint16_t" /\ prev.pre.n = 5 /\ prev.retB
  /\ cell.index = "uint16_t" /\ cell.n = 1

====
